---- MODULE Spec2Model ----
(***************************************************************************)
(* ABI lowering of src/abi.rs: the PassMode classifier, the signature      *)
(* synthesizer, the function prologue, call-site lowering, drop lowering   *)
(* and return lowering, as a state machine over one function builder.      *)
(***************************************************************************)
EXTENDS Integers, Sequences, FiniteSets, TLC

VARIABLES
    layout,       \* classifier run: the TyLayout handed to get_pass_mode
    pass_mode,    \* classifier run: the PassMode it returned ("-" before the call)
    mir,          \* the function being lowered
    debug,        \* cfg(debug_assertions) of the build
    is_like_windows, \* tcx.sess.target.target.options.is_like_windows
    vtable_flag,  \* signature run: the flag handed to clif_sig_from_fn_sig
    pc,           \* position of the lowering pass
    own_sig,      \* signature declared for the function being lowered
    ebb_params,   \* parameters appended to the entry block
    local_map,    \* fx.local_map: local -> place
    map_inserts,  \* the calls of fx.local_map.insert made so far, in order
    writes,       \* write_cvalue calls made so far, in order
    insts,        \* instructions emitted so far, in order
    stack_slots,  \* number of stack slots created in the function
    last,         \* the operation lowered last and its inputs
    err           \* the failure that aborted lowering ("none" while it runs)

vars == <<layout, pass_mode, mir, debug, is_like_windows, vtable_flag, pc, own_sig,
          ebb_params, local_map, map_inserts, writes, insts, stack_slots, last, err>>

----------------------------------------------------------------------------
(* Machine types and layouts *)

IntTypes == {"I8", "I16", "I32", "I64", "I128"}
FloatTypes == {"F32", "F64"}

\* Primitive of a Scalar: Int(width), Float(width) or Pointer.
Primitives == IntTypes \cup FloatTypes \cup {"Pointer"}

\* pointer_ty(tcx) / fx.pointer_type on the 64-bit target.
pointer_ty == "I64"

\* Type::is_int of a machine type.
is_int(t) == t \in IntTypes

scalar_to_clif_type(scalar) ==
    CASE scalar = "I8" -> "I8"
      [] scalar = "I16" -> "I16"
      [] scalar = "I32" -> "I32"
      [] scalar = "I64" -> "I64"
      [] scalar = "I128" -> "I128"
      [] scalar = "F32" -> "F32"
      [] scalar = "F64" -> "F64"
      [] scalar = "Pointer" -> pointer_ty

\* A TyLayout: size in bytes, sizedness and ABI class with its scalar halves.
Layout(size, sized, abi, a, b) ==
    [size |-> size, sized |-> sized, abi |-> abi, a |-> a, b |-> b]

is_unsized(l) == l.abi = "Aggregate" /\ ~l.sized

is_zst(l) ==
    CASE l.abi \in {"Scalar", "ScalarPair", "Vector"} -> FALSE
      [] l.abi = "Uninhabited" -> l.size = 0
      [] l.abi = "Aggregate" -> l.sized /\ l.size = 0

NoPass == [mode |-> "NoPass", a |-> "-", b |-> "-"]
ByVal(t) == [mode |-> "ByVal", a |-> t, b |-> "-"]
ByValPair(a, b) == [mode |-> "ByValPair", a |-> a, b |-> b]
ByRef == [mode |-> "ByRef", a |-> "-", b |-> "-"]
\* the assert!(!layout.is_unsized()) of get_pass_mode failing
AssertFailed == [mode |-> "panic", a |-> "-", b |-> "-"]

\* get_pass_mode without its test for zero-sized layouts.
get_pass_mode_without_zst_test(l) ==
    IF is_unsized(l) THEN AssertFailed
    ELSE CASE l.abi = "Uninhabited" -> NoPass
           [] l.abi = "Scalar" -> ByVal(scalar_to_clif_type(l.a))
           [] l.abi = "ScalarPair" ->
                LET a == scalar_to_clif_type(l.a)
                    b == scalar_to_clif_type(l.b)
                IN IF a = "I128" /\ b = "I128" THEN ByRef ELSE ByValPair(a, b)
           [] l.abi = "Vector" -> ByRef
           [] l.abi = "Aggregate" -> ByRef

\* get_pass_mode without its exception for a pair of 128-bit integers.
get_pass_mode_without_i128_test(l) ==
    IF is_unsized(l) THEN AssertFailed
    ELSE IF is_zst(l) THEN NoPass
    ELSE CASE l.abi = "Uninhabited" -> NoPass
           [] l.abi = "Scalar" -> ByVal(scalar_to_clif_type(l.a))
           [] l.abi = "ScalarPair" ->
                ByValPair(scalar_to_clif_type(l.a), scalar_to_clif_type(l.b))
           [] l.abi = "Vector" -> ByRef
           [] l.abi = "Aggregate" -> ByRef

get_pass_mode(l) ==
    IF is_unsized(l) THEN AssertFailed
    ELSE IF is_zst(l) THEN NoPass
    ELSE CASE l.abi = "Uninhabited" -> NoPass
           [] l.abi = "Scalar" -> ByVal(scalar_to_clif_type(l.a))
           [] l.abi = "ScalarPair" ->
                LET a == scalar_to_clif_type(l.a)
                    b == scalar_to_clif_type(l.b)
                IN IF a = "I128" /\ b = "I128" THEN ByRef ELSE ByValPair(a, b)
           [] l.abi = "Vector" -> ByRef
           [] l.abi = "Aggregate" -> ByRef

----------------------------------------------------------------------------
(* Types of the source program, as far as lowering looks at them *)

\* A Ty: a named non-tuple type, or a tuple of named types.
Nm(n) == [tuple |-> FALSE, name |-> n, elems |-> <<>>]
Tup(es) == [tuple |-> TRUE, name |-> "tuple", elems |-> es]

\* tcx.mk_unit()
mk_unit == Tup(<<>>)

\* tcx.mk_mut_ptr(tcx.mk_unit()): the thin pointer a virtual receiver becomes
mk_mut_ptr_unit == Nm("thinptr")

\* The layout oracle on the named types:
\*   zst     a zero-sized struct               never   the uninhabited type !
\*   i32     a 32-bit integer                  f64     a 64-bit float
\*   thinptr a pointer to a sized type         fatptr  a (data, table) pointer
\*   agg     a struct passed in memory
NamedLayout(n) ==
    CASE n = "zst" -> Layout(0, TRUE, "Aggregate", "-", "-")
      [] n = "never" -> Layout(0, TRUE, "Uninhabited", "-", "-")
      [] n = "i32" -> Layout(4, TRUE, "Scalar", "I32", "-")
      [] n = "f64" -> Layout(8, TRUE, "Scalar", "F64", "-")
      [] n = "thinptr" -> Layout(8, TRUE, "Scalar", "Pointer", "-")
      [] n = "fatptr" -> Layout(16, TRUE, "ScalarPair", "Pointer", "Pointer")
      [] n = "agg" -> Layout(24, TRUE, "Aggregate", "-", "-")

\* The layout oracle on a tuple: its zero-sized fields vanish; one scalar-like
\* field gives its layout to the tuple, two scalars make a pair, anything else
\* is an aggregate.
TupleLayout(es) ==
    LET nz == SelectSeq(es, LAMBDA n : ~is_zst(NamedLayout(n)))
    IN IF nz = <<>> THEN Layout(0, TRUE, "Aggregate", "-", "-")
       ELSE IF \E i \in 1..Len(nz) : NamedLayout(nz[i]).abi = "Uninhabited"
            THEN Layout(NamedLayout(nz[1]).size, TRUE, "Uninhabited", "-", "-")
       ELSE IF Len(nz) = 1 THEN NamedLayout(nz[1])
       ELSE IF Len(nz) = 2 /\ NamedLayout(nz[1]).abi = "Scalar"
                           /\ NamedLayout(nz[2]).abi = "Scalar"
            THEN Layout(16, TRUE, "ScalarPair", NamedLayout(nz[1]).a, NamedLayout(nz[2]).a)
       ELSE Layout(32, TRUE, "Aggregate", "-", "-")

layout_of(ty) == IF ty.tuple THEN TupleLayout(ty.elems) ELSE NamedLayout(ty.name)

\* tupled_arguments.types()
tuple_types(ty) == [i \in 1..Len(ty.elems) |-> Nm(ty.elems[i])]

\* A FnSig: calling-convention tag, declared inputs, output, variadic flag.
FnSig(abi, inputs, output, c_variadic) ==
    [abi |-> abi, inputs |-> inputs, output |-> output, c_variadic |-> c_variadic]

RECURSIVE Flatten(_)
Flatten(ss) == IF ss = <<>> THEN <<>> ELSE Head(ss) \o Flatten(Tail(ss))

----------------------------------------------------------------------------
(* Signature synthesis *)

\* A Signature { params, returns, call_conv }. Every arm of the convention
\* match that yields a signature yields CallConv::SystemV.
Signature(params, returns) ==
    [err |-> "none", params |-> params, returns |-> returns, call_conv |-> "SystemV"]
SigError(e) == [err |-> e, params |-> <<>>, returns |-> <<>>, call_conv |-> "-"]
NoSignature == SigError("unset")

\* The slots of one lowered input (the match on its PassMode).
input_slots(m) ==
    CASE m.mode = "NoPass" -> <<>>
      [] m.mode = "ByVal" -> <<m.a>>
      [] m.mode = "ByValPair" -> <<m.a, m.b>>
      [] m.mode = "ByRef" -> <<pointer_ty>>

\* lowered_inputs with the receiver of a virtual call lowered like any input.
lowered_inputs_fat_receiver(inputs, is_vtable_fn) ==
    Flatten([i \in 1..Len(inputs) |-> input_slots(get_pass_mode(layout_of(inputs[i])))])

\* The lowered inputs, flattened in declared order; the first is a thin
\* pointer for a virtual call.
lowered_inputs(inputs, is_vtable_fn) ==
    Flatten([i \in 1..Len(inputs) |->
        input_slots(get_pass_mode(IF i = 1 /\ is_vtable_fn
                                  THEN layout_of(mk_mut_ptr_unit)
                                  ELSE layout_of(inputs[i])))])

\* params_and_returns with the return pointer after the inputs.
params_and_returns_pointer_last(ins, out) ==
    CASE out.mode = "NoPass" -> Signature(ins, <<>>)
      [] out.mode = "ByVal" -> Signature(ins, <<out.a>>)
      [] out.mode = "ByValPair" -> Signature(ins, <<out.a, out.b>>)
      [] out.mode = "ByRef" -> Signature(ins \o <<pointer_ty>>, <<>>)

\* (params, returns) from the lowered inputs and the PassMode of the output.
params_and_returns(ins, out) ==
    CASE out.mode = "NoPass" -> Signature(ins, <<>>)
      [] out.mode = "ByVal" -> Signature(ins, <<out.a>>)
      [] out.mode = "ByValPair" -> Signature(ins, <<out.a, out.b>>)
      [] out.mode = "ByRef" -> Signature(<<pointer_ty>> \o ins, <<>>)

\* clif_sig_from_fn_sig that lowers the rust-call tuple as one input.
clif_sig_from_fn_sig_tuple_kept(windows, sig, is_vtable_fn) ==
    LET abi == IF sig.abi = "System"
               THEN (IF windows THEN "unimplemented" ELSE "C")
               ELSE sig.abi
    IN IF abi \notin {"Rust", "C", "RustCall", "RustIntrinsic"}
       THEN SigError("UnsupportedAbiConvention")
       ELSE IF abi = "RustCall" /\ Len(sig.inputs) # 2
       THEN SigError("AssertFailed")
       ELSE IF abi = "RustCall" /\ ~sig.inputs[2].tuple
       THEN SigError("MalformedTupleArgument")
       ELSE params_and_returns(lowered_inputs(sig.inputs, is_vtable_fn),
                               get_pass_mode(layout_of(sig.output)))

\* clif_sig_from_fn_sig that lowers a convention it does not know as the C
\* convention, and the platform default as C on every target.
clif_sig_from_fn_sig_fallback(windows, sig, is_vtable_fn) ==
    LET abi == IF sig.abi \in {"Rust", "RustCall", "RustIntrinsic"} THEN sig.abi ELSE "C"
    IN IF abi = "RustCall" /\ Len(sig.inputs) # 2
       THEN SigError("AssertFailed")
       ELSE IF abi = "RustCall" /\ ~sig.inputs[2].tuple
       THEN SigError("MalformedTupleArgument")
       ELSE params_and_returns(
                lowered_inputs(IF abi = "RustCall"
                               THEN <<sig.inputs[1]>> \o tuple_types(sig.inputs[2])
                               ELSE sig.inputs,
                               is_vtable_fn),
                get_pass_mode(layout_of(sig.output)))

clif_sig_from_fn_sig(windows, sig, is_vtable_fn) ==
    LET abi == IF sig.abi = "System"
               THEN (IF windows THEN "unimplemented" ELSE "C")
               ELSE sig.abi
    IN IF abi \notin {"Rust", "C", "RustCall", "RustIntrinsic"}
       THEN SigError("UnsupportedAbiConvention")
       ELSE IF abi = "RustCall" /\ Len(sig.inputs) # 2
       THEN SigError("AssertFailed")
       ELSE IF abi = "RustCall" /\ ~sig.inputs[2].tuple
       THEN SigError("MalformedTupleArgument")
       ELSE params_and_returns(
                lowered_inputs(IF abi = "RustCall"
                               THEN <<sig.inputs[1]>> \o tuple_types(sig.inputs[2])
                               ELSE sig.inputs,
                               is_vtable_fn),
                get_pass_mode(layout_of(sig.output)))

get_function_name_and_sig(windows, sig, support_vararg) ==
    IF sig.c_variadic /\ ~support_vararg
    THEN SigError("UnsupportedVariadicDefinition")
    ELSE clif_sig_from_fn_sig(windows, sig, FALSE)

----------------------------------------------------------------------------
(* Values, places and instructions of the function under construction *)

\* A low-level Value: its machine type, how it was produced, the local or
\* call argument it carries (src) with the tuple field (fld, -1 for none), and
\* a number n (position of a block parameter, immediate of a constant).
Value(ty, kind, src, fld, n) ==
    [ty |-> ty, kind |-> kind, src |-> src, fld |-> fld, n |-> n]

\* A CValue: by_val(v), by_val_pair(a, b) or by_ref(addr); None for Option::None.
CValue(kind, vals) == [kind |-> kind, vals |-> vals]
None == CValue("none", <<>>)

Inst(op, args, sig, dest) == [op |-> op, args |-> args, sig |-> sig, dest |-> dest]

RETURN_PLACE == 0
START_BLOCK == 0

EmptyMap == [l \in {} |-> 0]

\* PassMode::get_param_ty
get_param_ty(pm) ==
    CASE pm.mode = "NoPass" -> <<>>
      [] pm.mode = "ByVal" -> <<pm.a>>
      [] pm.mode = "ByValPair" -> <<pm.a, pm.b>>
      [] pm.mode = "ByRef" -> <<pointer_ty>>

\* local_place: the place bound to `local`, with the number of stack slots it
\* creates. A stack slot of a zero-sized type is CPlaceInner::NoPlace.
local_place(local, l, is_ssa, n_slots) ==
    IF is_ssa THEN [place |-> [kind |-> "var", slot |-> 0], slots |-> 0]
    ELSE IF l.size = 0 THEN [place |-> [kind |-> "noplace", slot |-> 0], slots |-> 0]
    ELSE [place |-> [kind |-> "stack", slot |-> n_slots + 1], slots |-> 1]

\* cvalue_for_param, called when the entry block has n_params parameters: the
\* parameters it appends and the CValue it returns.
\* cvalue_for_param that takes a pair as one pointer parameter.
cvalue_for_param_pair_as_pointer(n_params, local, local_field, arg_ty) ==
    LET pm == get_pass_mode(layout_of(arg_ty))
    IN IF pm.mode = "NoPass" THEN [params |-> <<>>, cvalue |-> None]
       ELSE LET ebb == <<Value(IF pm.mode = "ByVal" THEN pm.a ELSE pointer_ty,
                               "ebb_param", local, local_field, n_params + 1)>>
            IN [params |-> ebb,
                cvalue |-> CValue(IF pm.mode = "ByVal" THEN "by_val" ELSE "by_ref", ebb)]

cvalue_for_param(n_params, local, local_field, arg_ty) ==
    LET pm == get_pass_mode(layout_of(arg_ty))
    IN IF pm.mode = "NoPass" THEN [params |-> <<>>, cvalue |-> None]
       ELSE LET clif_types == get_param_ty(pm)
                ebb == [k \in 1..Len(clif_types) |->
                          Value(clif_types[k], "ebb_param", local, local_field, n_params + k)]
            IN [params |-> ebb,
                cvalue |-> CASE pm.mode = "ByVal" -> CValue("by_val", <<ebb[1]>>)
                             [] pm.mode = "ByValPair" -> CValue("by_val_pair", <<ebb[1], ebb[2]>>)
                             [] pm.mode = "ByRef" -> CValue("by_ref", <<ebb[1]>>)]

\* ParamItems that numbers the fields of the spread tuple from its end.
ParamItems_fields_reversed(m) ==
    Flatten([i \in 1..Len(m.args) |->
        IF i = m.spread_arg
        THEN [k \in 1..Len(m.args[i].elems) |->
                [local |-> i, field |-> Len(m.args[i].elems) - k,
                 ty |-> Nm(m.args[i].elems[k])]]
        ELSE <<[local |-> i, field |-> -1, ty |-> m.args[i]]>>])

\* The (local, field, type) triples the first loop of codegen_fn_prelude hands
\* to cvalue_for_param, in order: one per argument, or one per tuple element
\* of the spread argument.
ParamItems(m) ==
    Flatten([i \in 1..Len(m.args) |->
        IF i = m.spread_arg
        THEN [k \in 1..Len(m.args[i].elems) |->
                [local |-> i, field |-> k - 1, ty |-> Nm(m.args[i].elems[k])]]
        ELSE <<[local |-> i, field |-> -1, ty |-> m.args[i]]>>])

RECURSIVE func_params(_, _)
func_params(items, n_params) ==
    IF items = <<>> THEN <<>>
    ELSE LET it == Head(items)
             r == cvalue_for_param(n_params, it.local, it.field, it.ty)
         IN <<[local |-> it.local, field |-> it.field,
               params |-> r.params, cvalue |-> r.cvalue]>>
            \o func_params(Tail(items), n_params + Len(r.params))

\* fx.mir.args_iter(): the locals 1..arg_count.
args_iter(m) == [i \in 1..Len(m.args) |-> i]

\* vars_and_temps_iter that starts at the last argument.
vars_and_temps_iter_from_last_arg(m) ==
    [i \in 1..(Len(m.temps) + 1) |-> Len(m.args) + i - 1]

\* fx.mir.vars_and_temps_iter(): the locals after the arguments.
vars_and_temps_iter(m) == [i \in 1..Len(m.temps) |-> Len(m.args) + i]

\* The locals the second half of codegen_fn_prelude binds, in order:
\* RETURN_PLACE, the arguments, the variables and temporaries.
bound_locals(m) == <<RETURN_PLACE>> \o args_iter(m) \o vars_and_temps_iter(m)

\* fx.local_map.insert(local, place): the new map (an earlier binding of the
\* local is replaced), and the record of the call with prev_place.is_none().
map_insert(map, local, place) ==
    [map |-> [x \in (DOMAIN map) \cup {local} |-> IF x = local THEN place ELSE map[x]],
     insert |-> [local |-> local, prev_none |-> local \notin DOMAIN map]]

\* The places the second half of codegen_fn_prelude binds, local by local
\* over locals: the map, the stack slots and the inserts made.
RECURSIVE bind_locals(_, _, _, _, _)
bind_locals(m, locals, map, n_slots, inserts) ==
    IF locals = <<>> THEN [map |-> map, slots |-> n_slots, inserts |-> inserts]
    ELSE LET local == Head(locals)
             n_args == Len(m.args)
             ty == IF local = RETURN_PLACE THEN m.sig.output
                   ELSE IF local <= n_args THEN m.args[local]
                   ELSE m.temps[local - n_args]
             l == layout_of(ty)
             out == get_pass_mode(l)
             r == IF local = RETURN_PLACE /\ out.mode = "NoPass"
                  THEN [place |-> [kind |-> "noplace", slot |-> 0], slots |-> 0]
                  ELSE IF local = RETURN_PLACE /\ out.mode = "ByRef"
                  THEN [place |-> [kind |-> "addr", slot |-> 0], slots |-> 0]
                  ELSE local_place(local, l, local \notin m.not_ssa, n_slots)
             ins == map_insert(map, local, r.place)
         IN bind_locals(m, Tail(locals), ins.map, n_slots + r.slots,
                        Append(inserts, ins.insert))

----------------------------------------------------------------------------
(* Call-site lowering *)

\* adjust_arg_for_abi that passes a pair in memory, by its address.
adjust_arg_for_abi_pair_in_memory(arg_ty, i) ==
    LET pm == get_pass_mode(layout_of(arg_ty))
    IN CASE pm.mode = "NoPass" -> <<>>
         [] pm.mode = "ByVal" -> <<Value(pm.a, "load_scalar", i, -1, 0)>>
         [] pm.mode \in {"ByValPair", "ByRef"} ->
              <<Value(pointer_ty, "force_stack", i, -1, 0)>>

adjust_arg_for_abi(arg_ty, i) ==
    LET pm == get_pass_mode(layout_of(arg_ty))
    IN CASE pm.mode = "NoPass" -> <<>>
         [] pm.mode = "ByVal" -> <<Value(pm.a, "load_scalar", i, -1, 0)>>
         [] pm.mode = "ByValPair" -> <<Value(pm.a, "load_scalar_pair", i, 0, 0),
                                       Value(pm.b, "load_scalar_pair", i, 1, 0)>>
         [] pm.mode = "ByRef" -> <<Value(pointer_ty, "force_stack", i, -1, 0)>>

\* crate::vtable::get_ptr_and_method_ref: the receiver thinned to its data
\* pointer, and the function pointer read from the dispatch table.
get_ptr_and_method_ref(arg_ty) ==
    [ptr |-> Value(pointer_ty, "data_ptr", 1, -1, 0),
     method |-> Value(pointer_ty, "vtable_method", 1, -1, 0)]

\* CPlace::to_addr_maybe_unsized of a trait-object place: (data, table).
to_addr_maybe_unsized ==
    [ptr |-> Value(pointer_ty, "data_ptr", 1, -1, 0),
     vtable |-> Value(pointer_ty, "vtable_ptr", 1, -1, 0)]

\* crate::trap::trap_unreachable
trap_unreachable == <<Inst("trap", <<>>, NoSignature, -1)>>

\* The outcome of a lowering step: the failure that aborts it ("none" when it
\* completes), the instructions and writes it adds, the stack slots it
\* creates, the low-level arguments and the synthesized signature of its call.
Outcome(e, is, ws, slots, call_args, synth) ==
    [err |-> e, insts |-> is, writes |-> ws, slots |-> slots,
     call_args |-> call_args, synth |-> synth]

Write(place, local, field, cvalue) ==
    [place |-> place, local |-> local, field |-> field, cvalue |-> cvalue]

\* return_ptr of codegen_call_inner.
return_ptr(output_pass_mode, has_ret_place) ==
    IF output_pass_mode.mode = "ByRef"
    THEN IF has_ret_place
         THEN <<Value(pointer_ty, "ret_place_addr", 0, -1, 0)>>
         ELSE <<Value(pointer_ty, "iconst", 0, -1, 43)>>
    ELSE <<>>

\* first_arg of codegen_call_inner.
first_arg(kind, args) ==
    IF kind = "virtual" THEN <<get_ptr_and_method_ref(args[1]).ptr>>
    ELSE IF args = <<>> THEN <<>>
    ELSE adjust_arg_for_abi(args[1], 1)

\* call_args of codegen_call_inner.
call_args_of(kind, fn_sig, args, has_ret_place) ==
    return_ptr(get_pass_mode(layout_of(fn_sig.output)), has_ret_place)
    \o first_arg(kind, args)
    \o Flatten([i \in 1..(Len(args) - 1) |-> adjust_arg_for_abi(args[i + 1], i + 1)])

\* emit_call that accepts arguments of any machine type at a variadic call.
emit_call_any_type(dbg, kind, fn_sig, has_ret_place, output_pass_mode, call_args, synth) ==
    LET nop == IF dbg /\ kind \in {"virtual", "indirect"}
               THEN <<Inst("nop", <<>>, NoSignature, -1)>> ELSE <<>>
        sig == IF fn_sig.c_variadic
               THEN Signature([k \in 1..Len(call_args) |-> call_args[k].ty], synth.returns)
               ELSE synth
        is == nop \o <<Inst(IF kind = "direct" THEN "call" ELSE "call_indirect",
                            call_args, sig, -1)>>
        results == [k \in 1..Len(synth.returns) |->
                       Value(synth.returns[k], "result", 0, -1, k)]
        ret_writes ==
            IF ~has_ret_place THEN <<>>
            ELSE CASE output_pass_mode.mode = "ByVal" ->
                        <<Write("dest", 0, -1, CValue("by_val", results))>>
                   [] output_pass_mode.mode = "ByValPair" ->
                        <<Write("dest", 0, -1, CValue("by_val_pair", results))>>
                   [] OTHER -> <<>>
    IN IF synth.err # "none"
       THEN Outcome(synth.err, nop, <<>>, 0, call_args, synth)
       ELSE IF fn_sig.c_variadic /\ fn_sig.abi # "C"
       THEN Outcome("UnsupportedVariadicAbi", is, <<>>, 0, call_args, synth)
       ELSE Outcome("none", is, ret_writes, 0, call_args, synth)

\* codegen_call_inner from the call instruction on: the call, the variadic
\* rewrite of its signature, the write of its results.
emit_call(dbg, kind, fn_sig, has_ret_place, output_pass_mode, call_args, synth) ==
    LET nop == IF dbg /\ kind \in {"virtual", "indirect"}
               THEN <<Inst("nop", <<>>, NoSignature, -1)>> ELSE <<>>
        sig == IF fn_sig.c_variadic
               THEN Signature([k \in 1..Len(call_args) |-> call_args[k].ty], synth.returns)
               ELSE synth
        is == nop \o <<Inst(IF kind = "direct" THEN "call" ELSE "call_indirect",
                            call_args, sig, -1)>>
        results == [k \in 1..Len(synth.returns) |->
                       Value(synth.returns[k], "result", 0, -1, k)]
        ret_writes ==
            IF ~has_ret_place THEN <<>>
            ELSE CASE output_pass_mode.mode = "ByVal" ->
                        <<Write("dest", 0, -1, CValue("by_val", results))>>
                   [] output_pass_mode.mode = "ByValPair" ->
                        <<Write("dest", 0, -1, CValue("by_val_pair", results))>>
                   [] OTHER -> <<>>
    IN IF synth.err # "none"
       THEN Outcome(synth.err, nop, <<>>, 0, call_args, synth)
       ELSE IF fn_sig.c_variadic /\ fn_sig.abi # "C"
       THEN Outcome("UnsupportedVariadicAbi", is, <<>>, 0, call_args, synth)
       ELSE IF fn_sig.c_variadic /\ \E k \in 1..Len(call_args) : ~is_int(call_args[k].ty)
       THEN Outcome("UnsupportedVariadicArgType", is, <<>>, 0, call_args, synth)
       ELSE Outcome("none", is, ret_writes, 0, call_args, synth)

\* codegen_call_inner. kind is the callee as resolved from fn_ty: "direct" (a
\* FnDef that is no virtual slot), "virtual", or "indirect" (no FnDef);
\* args are the types of the argument CValues.
codegen_call_inner(dbg, windows, kind, fn_sig, args, has_ret_place) ==
    emit_call(dbg, kind, fn_sig, has_ret_place,
              get_pass_mode(layout_of(fn_sig.output)),
              call_args_of(kind, fn_sig, args, has_ret_place),
              IF kind = "direct"
              THEN get_function_name_and_sig(windows, fn_sig, TRUE)
              ELSE clif_sig_from_fn_sig(windows, fn_sig, kind = "virtual"))

\* A call terminator as codegen_terminator_call sees it: how the callee
\* resolves, its signature, the types of the argument operands and the
\* successor block (-1 for none).
CallSite(kind, sig, args, dest) == [kind |-> kind, sig |-> sig, args |-> args, dest |-> dest]
NoCallSite == CallSite("-", FnSig("-", <<>>, mk_unit, FALSE), <<>>, -1)

\* "Unpack arguments tuple for closures": the arguments handed to
\* codegen_call_inner at a well-formed call site c.
unpack_args(c) ==
    IF c.sig.abi = "RustCall"
    THEN <<c.args[1]>> \o tuple_types(c.args[2])
    ELSE c.args

\* The end of codegen_terminator_call: after the call r, a jump to the
\* successor or a trap.
continue_or_trap(c, r) ==
    IF r.err # "none" THEN r
    ELSE Outcome("none",
                 r.insts \o (IF c.dest # -1
                             THEN <<Inst("jump", <<>>, NoSignature, c.dest)>>
                             ELSE trap_unreachable),
                 r.writes, r.slots, r.call_args, r.synth)

\* What codegen_terminator_call does at call site c.
terminator_call(dbg, windows, c) ==
    IF c.kind \in {"llvm_intrinsic", "intrinsic"}
    THEN Outcome("none", <<Inst(c.kind, <<>>, NoSignature, c.dest)>>, <<>>, 0, <<>>, NoSignature)
    ELSE IF c.kind = "nop_drop_glue"
    THEN IF c.dest = -1
         THEN Outcome("ExpectFailed", <<>>, <<>>, 0, <<>>, NoSignature)
         ELSE Outcome("none", <<Inst("jump", <<>>, NoSignature, c.dest)>>,
                      <<>>, 0, <<>>, NoSignature)
    ELSE IF c.sig.abi = "RustCall" /\ Len(c.args) # 2
    THEN Outcome("AssertFailed", <<>>, <<>>, 0, <<>>, NoSignature)
    ELSE IF c.sig.abi = "RustCall" /\ ~c.args[2].tuple
    THEN Outcome("MalformedTupleArgument", <<>>, <<>>, 0, <<>>, NoSignature)
    ELSE continue_or_trap(c,
             codegen_call_inner(dbg, windows, c.kind, c.sig, unpack_args(c), c.dest # -1))

----------------------------------------------------------------------------
(* Drop lowering *)

\* The type of a dropped place: whether drop_in_place has a body for it
\* (needs_drop) and its shape: "sized", "slice" (unsized, no dispatch table)
\* or "dyn" (ty::Dynamic).
DropTy(needs_drop, shape) == [needs_drop |-> needs_drop, shape |-> shape]
NoDropTy == DropTy(FALSE, "-")

\* fn_sig of drop_in_place::<ty>: one pointer to ty, returning unit.
drop_fn_sig(ty) ==
    FnSig("Rust", <<IF ty.shape = "sized" THEN Nm("thinptr") ELSE Nm("fatptr")>>, mk_unit, FALSE)

\* The call codegen_drop makes for a place of type ty, as a call site: the
\* destructor read from the dispatch table for a trait object, the resolved
\* drop_in_place otherwise; none when there is nothing to drop.
drop_call_site(ty) ==
    IF ~ty.needs_drop THEN NoCallSite
    ELSE CallSite(IF ty.shape = "dyn" THEN "virtual" ELSE "direct",
                  drop_fn_sig(ty), drop_fn_sig(ty).inputs, -1)

\* The ty::Dynamic arm of codegen_drop: an indirect call of the destructor
\* read from the dispatch table, on the data pointer.
drop_dynamic(ptr, fn_sig, sig) ==
    IF fn_sig.output # mk_unit
    THEN Outcome("AssertFailed", <<>>, <<>>, 0, <<>>, NoSignature)
    ELSE IF sig.err # "none" THEN Outcome(sig.err, <<>>, <<>>, 0, <<ptr>>, sig)
    ELSE Outcome("none", <<Inst("call_indirect", <<ptr>>, sig, -1)>>, <<>>, 0, <<ptr>>, sig)

\* The other arm: a reference to the place in a fresh stack slot, handed to
\* codegen_call_inner (outcome r).
drop_static(r) ==
    Outcome(r.err, r.insts,
            <<Write("drop_arg", 0, -1, CValue("place_ref", <<>>))>> \o r.writes,
            1, r.call_args, r.synth)

\* drop_outcome that calls drop_in_place whether or not it has a body.
drop_outcome_always_calls(dbg, windows, ty) ==
    IF ty.shape = "dyn"
    THEN drop_dynamic(to_addr_maybe_unsized.ptr, drop_fn_sig(ty),
                      clif_sig_from_fn_sig(windows, drop_fn_sig(ty), TRUE))
    ELSE drop_static(codegen_call_inner(dbg, windows, "direct", drop_fn_sig(ty),
                                        drop_fn_sig(ty).inputs, FALSE))

\* What codegen_drop does for a place of type ty.
drop_outcome(dbg, windows, ty) ==
    IF ~ty.needs_drop
    THEN Outcome("none", <<>>, <<>>, 0, <<>>, NoSignature)
    ELSE IF ty.shape = "dyn"
    THEN drop_dynamic(to_addr_maybe_unsized.ptr, drop_fn_sig(ty),
                      clif_sig_from_fn_sig(windows, drop_fn_sig(ty), TRUE))
    ELSE drop_static(codegen_call_inner(dbg, windows, "direct", drop_fn_sig(ty),
                                        drop_fn_sig(ty).inputs, FALSE))

----------------------------------------------------------------------------
(* Bounds and input domains *)

MaxArgs == 2        \* declared inputs of a function type (tuple not unpacked)
MaxTuple == 3       \* elements of the tuple of a rust-call function type
MaxSpread == 2      \* elements of the spread tuple of a function being lowered
MaxCallTuple == 1   \* elements of the argument tuple at a rust-call call site
MaxExtra == 1       \* arguments of a variadic call past the declared inputs
MaxLocals == 2      \* arguments, variables and temporaries of a function being lowered
MaxNotSsa == 1      \* the analysis may flag NOT_SSA the locals 0..MaxNotSsa
MaxBlock == 1       \* successor blocks a terminator may name

SeqsUpTo(S, n) == UNION {[1..k -> S] : k \in 0..n}

ArgTys == {Nm("zst"), Nm("i32"), Nm("f64"), Nm("fatptr"), Nm("agg")}
SelfTys == {Nm("zst"), Nm("i32"), Nm("agg")}
ElemNames == {"zst", "i32", "fatptr", "agg"}
OutTys == {mk_unit, Nm("never"), Nm("i32"), Nm("fatptr"), Nm("agg")}
FnOutTys == {mk_unit, Nm("i32"), Nm("fatptr"), Nm("agg")}
TempTys == {Nm("zst"), Nm("i32")}

\* A function being lowered: the signature of its instance, the declared
\* types of its argument locals, the local that is the spread argument (0 for
\* none), the types of its variables and temporaries, and the locals the
\* analysis flags NOT_SSA.
Mir(sig, args, spread_arg, temps, not_ssa) ==
    [sig |-> sig, args |-> args, spread_arg |-> spread_arg, temps |-> temps,
     not_ssa |-> not_ssa]

NotSsaSets(n_locals) == SUBSET ((0..MaxNotSsa) \cap (0..n_locals))

Dests == {-1} \cup (1..MaxBlock)

DropTys == {DropTy(FALSE, "sized"), DropTy(FALSE, "slice"),
            DropTy(TRUE, "sized"), DropTy(TRUE, "slice"), DropTy(TRUE, "dyn")}

\* Size in bytes of a primitive.
PrimSize(p) ==
    CASE p = "I8" -> 1
      [] p = "I16" -> 2
      [] p \in {"I32", "F32"} -> 4
      [] p \in {"I64", "F64", "Pointer"} -> 8
      [] p = "I128" -> 16

\* The layouts the oracle can answer with: every scalar, every pair of
\* scalars, vectors, sized and unsized aggregates, uninhabited layouts; the
\* last two kinds with and without bytes.
Layouts ==
    {Layout(PrimSize(p), TRUE, "Scalar", p, "-") : p \in Primitives}
    \cup {Layout(PrimSize(p) + PrimSize(q), TRUE, "ScalarPair", p, q) :
             p \in Primitives, q \in Primitives}
    \cup {Layout(n, TRUE, "Vector", "-", "-") : n \in {8, 16}}
    \cup {Layout(n, sized, "Aggregate", "-", "-") : n \in {0, 1, 24}, sized \in BOOLEAN}
    \cup {Layout(n, TRUE, "Uninhabited", "-", "-") : n \in {0, 4}}

\* The convention tags (syntax::abi::Abi) the model tells apart: the ones the
\* synthesizer names, and three of the others.
AbiTags == {"Rust", "C", "System", "RustIntrinsic", "RustCall",
            "Cdecl", "Stdcall", "PlatformIntrinsic"}

\* The function types handed to the signature synthesizer: every convention
\* tag over the declared inputs, and rust-call types with a tuple, with a
\* second input that is no tuple, or with a single input.
FnTypes ==
    {FnSig(abi, ins, out, FALSE) :
        abi \in AbiTags \ {"RustCall"},
        ins \in SeqsUpTo(ArgTys, MaxArgs), out \in OutTys}
    \cup {FnSig("RustCall", <<self, Tup(es)>>, out, FALSE) :
             self \in ArgTys, es \in SeqsUpTo(ElemNames, MaxTuple), out \in OutTys}
    \cup {FnSig("RustCall", ins, out, FALSE) :
             ins \in {<<Nm("agg")>>, <<Nm("agg"), Nm("agg")>>}, out \in OutTys}

----------------------------------------------------------------------------
(* The lowering pass of one function *)

NoLast == [op |-> "none", callee |-> NoCallSite, drop_ty |-> NoDropTy,
           call_args |-> <<>>, synth |-> NoSignature]
NoLayout == Layout(0, TRUE, "Aggregate", "-", "-")
NoMode == [mode |-> "-", a |-> "-", b |-> "-"]

\* The builder of a function before it is declared.
InitBuilder ==
    /\ debug \in BOOLEAN
    /\ is_like_windows = FALSE
    /\ vtable_flag = FALSE
    /\ pc = "start"
    /\ own_sig = NoSignature
    /\ ebb_params = <<>>
    /\ local_map = EmptyMap
    /\ map_inserts = <<>>
    /\ writes = <<>>
    /\ insts = <<>>
    /\ stack_slots = 0
    /\ last = NoLast
    /\ err = "none"
    /\ layout = NoLayout
    /\ pass_mode = NoMode

\* A function whose argument locals have the declared inputs of its
\* signature as types.
InitMir(sig, spread_arg) ==
    /\ \E temps \in SeqsUpTo(TempTys, MaxLocals - Len(sig.inputs)) :
         \E S \in NotSsaSets(Len(sig.inputs) + Len(temps)) :
            mir = Mir(sig, sig.inputs, spread_arg, temps, S)
    /\ InitBuilder

\* The body of a closure: its signature is the rust-call one, (Self, tuple),
\* while its argument locals are Self and the elements of the tuple, one
\* local each, and none is a spread argument.
InitClosure(self, es, out) ==
    /\ \E S \in NotSsaSets(0) :
          mir = Mir(FnSig("RustCall", <<self, Tup(es)>>, out, FALSE),
                    <<self>> \o tuple_types(Tup(es)), 0, <<>>, S)
    /\ InitBuilder

\* The functions lowered: native-convention functions, rust-call functions
\* whose second argument is the spread tuple, closures, and variadic
\* definitions.
Init ==
    \/ \E ins \in SeqsUpTo(ArgTys, MaxArgs), out \in FnOutTys :
          InitMir(FnSig("Rust", ins, out, FALSE), 0)
    \/ \E self \in SelfTys, es \in SeqsUpTo(ElemNames, MaxSpread), out \in FnOutTys :
          InitMir(FnSig("RustCall", <<self, Tup(es)>>, out, FALSE), 2)
    \/ \E self \in SelfTys, es \in SeqsUpTo(ElemNames, MaxSpread), out \in FnOutTys :
          InitClosure(self, es, out)
    \/ \E abi \in {"C", "Cdecl"}, v \in BOOLEAN :
          InitMir(FnSig(abi, <<>>, mk_unit, v), 0)

\* The driver declares the function with the signature of
\* get_function_name_and_sig(tcx, instance, false) before lowering its body.
declare_function ==
    /\ pc = "start"
    /\ LET sig == get_function_name_and_sig(is_like_windows, mir.sig, FALSE)
       IN /\ own_sig' = sig
          /\ err' = sig.err
          /\ pc' = IF sig.err = "none" THEN "declared" ELSE "aborted"
    /\ last' = [NoLast EXCEPT !.op = "declare"]
    /\ UNCHANGED <<layout, pass_mode, mir, debug, is_like_windows, vtable_flag, ebb_params,
                   local_map, map_inserts, writes, insts, stack_slots>>

codegen_fn_prelude ==
    /\ pc = "declared"
    /\ LET output_pass_mode == get_pass_mode(layout_of(mir.sig.output))
           ret_param == IF output_pass_mode.mode = "ByRef"
                        THEN <<Value(pointer_ty, "ebb_param", RETURN_PLACE, -1, 1)>>
                        ELSE <<>>
           params == func_params(ParamItems(mir), Len(ret_param))
           bound == bind_locals(mir, bound_locals(mir), local_map, stack_slots, map_inserts)
           written == SelectSeq(params, LAMBDA p : p.cvalue # None)
       IN /\ ebb_params' = ret_param \o Flatten([i \in 1..Len(params) |-> params[i].params])
          /\ local_map' = bound.map
          /\ map_inserts' = bound.inserts
          /\ stack_slots' = bound.slots
          /\ writes' = writes \o [i \in 1..Len(written) |->
                          Write("local", written[i].local, written[i].field, written[i].cvalue)]
          /\ insts' = insts \o <<Inst("jump", <<>>, NoSignature, START_BLOCK)>>
    /\ pc' = "body"
    /\ last' = [NoLast EXCEPT !.op = "prelude"]
    /\ UNCHANGED <<layout, pass_mode, mir, debug, is_like_windows, vtable_flag, own_sig, err>>

\* Applies the outcome r of lowering one terminator.
Lowered(op, c, ty, r) ==
    /\ last' = [op |-> op, callee |-> c, drop_ty |-> ty,
                call_args |-> r.call_args, synth |-> r.synth]
    /\ err' = r.err
    /\ IF r.err = "none"
       THEN /\ pc' = "lowered"
            /\ insts' = insts \o r.insts
            /\ writes' = writes \o r.writes
            /\ stack_slots' = stack_slots + r.slots
       ELSE /\ pc' = "aborted"
            /\ UNCHANGED <<insts, writes, stack_slots>>
    /\ UNCHANGED <<layout, pass_mode, mir, debug, is_like_windows, vtable_flag, own_sig,
                   ebb_params, local_map, map_inserts>>

\* The call terminators lowered, by family: plain, variadic and rust-call
\* call sites of callees called directly or through a function pointer;
\* virtual calls, whose receiver is a trait-object pointer; intrinsics; no-op
\* drop glue.
CallSites(family) ==
    CASE family = "plain" ->
           {CallSite(k, FnSig(abi, ins, out, FALSE), ins, d) :
               k \in {"direct", "indirect"}, abi \in {"Rust", "C", "System", "Cdecl"},
               ins \in SeqsUpTo(ArgTys, MaxArgs), out \in OutTys, d \in Dests}
      [] family = "variadic" ->
           {CallSite(x[1], FnSig(abi, <<x[2]>>, out, TRUE), <<x[2]>> \o extra, d) :
               x \in ({"direct", "indirect"} \X ArgTys) \cup {<<"virtual", Nm("fatptr")>>},
               abi \in {"C", "Cdecl"}, extra \in SeqsUpTo(ArgTys, MaxExtra),
               out \in {mk_unit, Nm("agg")}, d \in Dests}
      [] family = "rust-call" ->
           {CallSite(x[1], FnSig("RustCall", <<x[2], pack>>, out, FALSE), <<x[2], pack>>, d) :
               x \in ({"direct", "indirect"} \X ArgTys) \cup {<<"virtual", Nm("fatptr")>>},
               pack \in {Tup(es) : es \in SeqsUpTo(ElemNames, MaxCallTuple)} \cup {Nm("agg")},
               out \in OutTys, d \in Dests}
      [] family = "virtual" ->
           {CallSite("virtual", FnSig(abi, <<Nm("fatptr")>> \o rest, out, FALSE),
                     <<Nm("fatptr")>> \o rest, d) :
               abi \in {"Rust", "C"}, rest \in SeqsUpTo(ArgTys, MaxArgs - 1),
               out \in OutTys, d \in Dests}
      [] family = "intrinsic" ->
           {CallSite(x[1], FnSig(x[2], ins, out, FALSE), ins, d) :
               x \in {<<"intrinsic", "RustIntrinsic">>, <<"llvm_intrinsic", "C">>},
               ins \in SeqsUpTo(ArgTys, 1), out \in OutTys, d \in Dests}
      [] family = "drop-glue" ->
           {CallSite("nop_drop_glue", FnSig("Rust", <<p>>, mk_unit, FALSE), <<p>>, d) :
               p \in {Nm("thinptr"), Nm("fatptr")}, d \in Dests}

Families == {"plain", "variadic", "rust-call", "virtual", "intrinsic", "drop-glue"}

\* The lowering of a terminator reads the return type of the function it is
\* in and nothing else of it: return and drop terminators are lowered in the
\* functions whose only local is RETURN_PLACE, call terminators in those of
\* them that return unit.
SmallCaller == mir.args = <<>> /\ mir.temps = <<>> /\ mir.not_ssa = {}

codegen_terminator_call ==
    /\ pc = "body"
    /\ SmallCaller
    /\ mir.sig.output = mk_unit
    /\ \E family \in Families : \E c \in CallSites(family) :
          Lowered("call", c, NoDropTy, terminator_call(debug, is_like_windows, c))

codegen_drop ==
    /\ pc = "body"
    /\ SmallCaller
    /\ \E ty \in DropTys :
          Lowered("drop", drop_call_site(ty), ty, drop_outcome(debug, is_like_windows, ty))

\* What codegen_return does in a function whose return PassMode is pm.
return_outcome(pm) ==
    LET vals == CASE pm.mode \in {"NoPass", "ByRef"} -> <<>>
                  [] pm.mode = "ByVal" ->
                       <<Value(pm.a, "load_scalar", RETURN_PLACE, -1, 0)>>
                  [] pm.mode = "ByValPair" ->
                       <<Value(pm.a, "load_scalar_pair", RETURN_PLACE, 0, 0),
                         Value(pm.b, "load_scalar_pair", RETURN_PLACE, 1, 0)>>
    IN Outcome("none", <<Inst("return", vals, NoSignature, -1)>>,
               <<>>, 0, <<>>, NoSignature)

codegen_return ==
    /\ pc = "body"
    /\ SmallCaller
    /\ Lowered("return", NoCallSite, NoDropTy,
               return_outcome(get_pass_mode(layout_of(mir.sig.output))))

Next ==
    \/ declare_function
    \/ codegen_fn_prelude
    \/ codegen_terminator_call
    \/ codegen_drop
    \/ codegen_return

Spec == Init /\ [][Next]_vars

----------------------------------------------------------------------------
(* The classifier on its own: one call of get_pass_mode on any layout *)

InitClassify ==
    /\ layout \in Layouts
    /\ pass_mode = NoMode
    /\ pc = "classify"
    /\ mir = Mir(FnSig("Rust", <<>>, mk_unit, FALSE), <<>>, 0, <<>>, {})
    /\ debug = FALSE
    /\ is_like_windows = FALSE
    /\ vtable_flag = FALSE
    /\ own_sig = NoSignature
    /\ ebb_params = <<>>
    /\ local_map = EmptyMap
    /\ map_inserts = <<>>
    /\ writes = <<>>
    /\ insts = <<>>
    /\ stack_slots = 0
    /\ last = NoLast
    /\ err = "none"

classify ==
    /\ pc = "classify"
    /\ pass_mode' = get_pass_mode(layout)
    /\ err' = IF get_pass_mode(layout) = AssertFailed THEN "AssertFailed" ELSE "none"
    /\ pc' = "classified"
    /\ UNCHANGED <<layout, mir, debug, is_like_windows, vtable_flag, own_sig, ebb_params,
                   local_map, map_inserts, writes, insts, stack_slots, last>>

NextClassify == classify

SpecClassify == InitClassify /\ [][NextClassify]_vars

----------------------------------------------------------------------------
(* The signature synthesizer on its own: one call of clif_sig_from_fn_sig on *)
(* any function type, on either kind of target. mir carries the function     *)
(* type only. The virtual-receiver flag is set for the types of methods      *)
(* called through a trait object, whose first input is the (data, table)     *)
(* pointer to the object.                                                    *)

InitSig ==
    /\ \E sig \in FnTypes : mir = Mir(sig, <<>>, 0, <<>>, {})
    /\ is_like_windows \in BOOLEAN
    /\ vtable_flag \in BOOLEAN
    /\ vtable_flag => (mir.sig.inputs # <<>> /\ mir.sig.inputs[1] = Nm("fatptr"))
    /\ pc = "signature"
    /\ layout = NoLayout
    /\ pass_mode = NoMode
    /\ debug = FALSE
    /\ own_sig = NoSignature
    /\ ebb_params = <<>>
    /\ local_map = EmptyMap
    /\ map_inserts = <<>>
    /\ writes = <<>>
    /\ insts = <<>>
    /\ stack_slots = 0
    /\ last = NoLast
    /\ err = "none"

synthesize ==
    /\ pc = "signature"
    /\ LET sig == clif_sig_from_fn_sig(is_like_windows, mir.sig, vtable_flag)
       IN /\ own_sig' = sig
          /\ err' = sig.err
    /\ pc' = "synthesized"
    /\ UNCHANGED <<layout, pass_mode, mir, debug, is_like_windows, vtable_flag, ebb_params,
                   local_map, map_inserts, writes, insts, stack_slots, last>>

NextSig == synthesize

SpecSig == InitSig /\ [][NextSig]_vars

----------------------------------------------------------------------------
(* Vocabulary of the properties *)

ZeroSized(ty) == is_zst(layout_of(ty))

\* The machine slots a value of type ty takes: none, one or two.
SlotsOf(ty) == get_param_ty(get_pass_mode(layout_of(ty)))

\* The declared inputs of a function type, a rust-call tuple unpacked.
FlatInputs(sig) ==
    IF sig.abi = "RustCall" THEN <<sig.inputs[1]>> \o tuple_types(sig.inputs[2])
    ELSE sig.inputs

\* The slots of the inputs tys in order; the first is the thin receiver of a
\* virtual call when virtual holds.
InputSlots(tys, virtual) ==
    Flatten([i \in 1..Len(tys) |->
        IF i = 1 /\ virtual THEN <<pointer_ty>> ELSE SlotsOf(tys[i])])

ReturnsByRef(sig) == get_pass_mode(layout_of(sig.output)).mode = "ByRef"

\* The last terminator lowered is a call that reached codegen_call_inner.
CallLowered ==
    /\ last.op = "call"
    /\ last.callee.kind \in {"direct", "virtual", "indirect"}
    /\ err \notin {"AssertFailed", "MalformedTupleArgument"}

\* The positions of the low-level arguments that carry call argument i
\* (0: the hidden return pointer).
ArgPositions(i) == {k \in 1..Len(last.call_args) : last.call_args[k].src = i}

LastInst == insts[Len(insts)]

----------------------------------------------------------------------------
(* Properties *)

\* C1: a zero-sized layout is classified NoPass, and no slot is generated for
\* a value of a zero-sized type: the signature of the function being lowered
\* and the signature synthesized at a call site hold exactly the slots of the
\* other inputs (and no return slot and no hidden pointer for a zero-sized
\* output), no low-level call argument carries a zero-sized argument, and no
\* entry-block parameter and no write belongs to a zero-sized argument or
\* tuple element.
C1_ZstNeverPassed ==
    /\ \A l \in Layouts : is_zst(l) => get_pass_mode(l) = NoPass
    /\ \A x \in {<<own_sig, mir.sig, FALSE>>,
                  <<last.synth, last.callee.sig, last.callee.kind = "virtual">>} :
          x[1].err = "none" =>
             LET nz == SelectSeq(FlatInputs(x[2]), LAMBDA ty : ~ZeroSized(ty))
             IN /\ x[1].params = (IF ReturnsByRef(x[2]) THEN <<pointer_ty>> ELSE <<>>)
                                   \o InputSlots(nz, x[3])
                /\ ZeroSized(x[2].output) => x[1].returns = <<>>
    /\ CallLowered =>
          \A i \in 1..Len(unpack_args(last.callee)) :
             ZeroSized(unpack_args(last.callee)[i]) => ArgPositions(i) = {}
    /\ \A k \in 1..Len(ebb_params) :
          LET p == ebb_params[k]
          IN p.src # RETURN_PLACE =>
                ~ZeroSized(IF p.fld >= 0 THEN Nm(mir.args[p.src].elems[p.fld + 1])
                           ELSE mir.args[p.src])
    /\ \A k \in 1..Len(writes) :
          LET w == writes[k]
          IN w.place = "local" =>
                ~ZeroSized(IF w.field >= 0 THEN Nm(mir.args[w.local].elems[w.field + 1])
                           ELSE mir.args[w.local])

\* C1 witness: a call with a zero-sized and a passed argument was lowered.
C1_Witness ==
    /\ CallLowered
    /\ pc = "lowered"
    /\ last.callee.args = <<Nm("zst"), Nm("i32")>>
    /\ Len(last.call_args) = 1
    /\ last.synth.params = <<"I32">>

\* C2: on every sized layout get_pass_mode is the reference rule: NoPass for
\* zero size or Uninhabited, ByVal of the machine type for Scalar, ByValPair
\* of the halves in order for ScalarPair unless both are I128 (then ByRef),
\* ByRef for Vector and Aggregate.
C2_ReferenceRule ==
    (pc = "classified" /\ layout.sized) =>
        pass_mode =
            IF layout.size = 0 \/ layout.abi = "Uninhabited" THEN NoPass
            ELSE IF layout.abi = "Scalar"
                 THEN ByVal(IF layout.a = "Pointer" THEN "I64" ELSE layout.a)
            ELSE IF layout.abi = "ScalarPair"
                 THEN IF layout.a = "I128" /\ layout.b = "I128" THEN ByRef
                      ELSE ByValPair(IF layout.a = "Pointer" THEN "I64" ELSE layout.a,
                                     IF layout.b = "Pointer" THEN "I64" ELSE layout.b)
            ELSE ByRef

\* C2 witness: the pair of two 128-bit integers was classified.
C2_Witness ==
    /\ pc = "classified"
    /\ layout.abi = "ScalarPair"
    /\ layout.a = "I128"
    /\ layout.b = "I128"
    /\ pass_mode = ByRef

\* C3: when the return PassMode is ByRef, the synthesized signature is one
\* pointer slot followed by the slots of the inputs, with no return slot, and
\* the call's argument list holds exactly one hidden value, a pointer, in
\* first position; for any other return PassMode the signature is the slots
\* of the inputs and the argument list holds no hidden value.
C3_HiddenReturnPointer ==
    /\ own_sig.err = "none" =>
          IF ReturnsByRef(mir.sig)
          THEN /\ own_sig.params = <<pointer_ty>> \o InputSlots(FlatInputs(mir.sig), FALSE)
               /\ own_sig.returns = <<>>
          ELSE own_sig.params = InputSlots(FlatInputs(mir.sig), FALSE)
    /\ CallLowered =>
          LET c == last.callee
              ins == InputSlots(FlatInputs(c.sig), c.kind = "virtual")
          IN IF ReturnsByRef(c.sig)
             THEN /\ ArgPositions(0) = {1}
                  /\ last.call_args[1].ty = pointer_ty
                  /\ last.synth.err = "none" =>
                        /\ last.synth.params = <<pointer_ty>> \o ins
                        /\ last.synth.returns = <<>>
             ELSE /\ ArgPositions(0) = {}
                  /\ last.synth.err = "none" => last.synth.params = ins

\* C3 witness: a call of a function that takes an integer and returns an
\* aggregate was lowered.
C3_Witness ==
    /\ CallLowered
    /\ pc = "lowered"
    /\ last.callee.sig.output = Nm("agg")
    /\ last.callee.args = <<Nm("i32")>>
    /\ last.synth.params = <<"I64", "I32">>
    /\ Len(last.call_args) = 2

\* The rust-call function types (Self, (A, B, C)) whose signature was
\* synthesized.
RustCallOfThree ==
    /\ pc = "synthesized"
    /\ own_sig.err = "none"
    /\ mir.sig.abi = "RustCall"
    /\ Len(mir.sig.inputs[2].elems) = 3

\* C4 as stated: the signature of (Self, (A, B, C)) is one Self slot followed
\* by the slots of A, of B and of C.
C4_OneSelfSlot ==
    RustCallOfThree =>
        LET t == tuple_types(mir.sig.inputs[2])
        IN \E self \in {pointer_ty, "I32", "F64"} :
              own_sig.params = <<self>> \o SlotsOf(t[1]) \o SlotsOf(t[2]) \o SlotsOf(t[3])

\* C4, amended: the signature of (Self, (A, B, C)) is the hidden return
\* pointer when the return PassMode is ByRef, then the slots of Self (none,
\* one or two by its PassMode; one pointer under the virtual-receiver flag),
\* then the slots of A, of B and of C.
C4_RustCallParams ==
    RustCallOfThree =>
        LET t == tuple_types(mir.sig.inputs[2])
        IN own_sig.params =
              (IF ReturnsByRef(mir.sig) THEN <<pointer_ty>> ELSE <<>>)
              \o (IF vtable_flag THEN <<pointer_ty>> ELSE SlotsOf(mir.sig.inputs[1]))
              \o SlotsOf(t[1]) \o SlotsOf(t[2]) \o SlotsOf(t[3])

\* C4 witness: a zero-sized Self before a scalar, a pair and an aggregate.
C4_Witness ==
    /\ RustCallOfThree
    /\ mir.sig.inputs = <<Nm("zst"), Tup(<<"i32", "fatptr", "agg">>)>>
    /\ own_sig.params = <<"I32", "I64", "I64", "I64">>

\* The entry-block parameters of the spread argument, in order.
SpreadParams == SelectSeq(ebb_params, LAMBDA p : p.src = mir.spread_arg)

\* C5: after the prologue of a function with a spread argument of type
\* (T0, ..., Tn-1), the entry-block parameters of that argument are the slots
\* of T0, ..., Tn-1 in order, consecutive, each tagged with its element; each
\* element that is not NoPass is written once, to its own field of the local,
\* from exactly its own parameters; NoPass elements are not written, and the
\* local is written field by field only.
C5_SpreadArgument ==
    (pc = "body" /\ mir.spread_arg # 0) =>
        LET t == tuple_types(mir.args[mir.spread_arg])
            ws == SelectSeq(writes, LAMBDA w : w.place = "local" /\ w.local = mir.spread_arg)
        IN /\ [k \in 1..Len(SpreadParams) |-> <<SpreadParams[k].ty, SpreadParams[k].fld>>]
                = Flatten([i \in 1..Len(t) |->
                     [k \in 1..Len(SlotsOf(t[i])) |-> <<SlotsOf(t[i])[k], i - 1>>]])
           /\ \A k \in 1..(Len(SpreadParams) - 1) :
                 SpreadParams[k + 1].n = SpreadParams[k].n + 1
           /\ \A i \in 1..Len(t) :
                 Cardinality({k \in 1..Len(ws) : ws[k].field = i - 1})
                    = IF SlotsOf(t[i]) = <<>> THEN 0 ELSE 1
           /\ \A k \in 1..Len(ws) :
                 /\ ws[k].field \in 0..(Len(t) - 1)
                 /\ ws[k].cvalue.vals
                       = SelectSeq(SpreadParams, LAMBDA p : p.fld = ws[k].field)
           /\ \A j, k \in 1..Len(ws) : j < k => ws[j].field < ws[k].field

\* C5 witness: the prologue of a function whose spread tuple is a zero-sized
\* element and a pair.
C5_Witness ==
    /\ pc = "body"
    /\ mir.spread_arg = 2
    /\ mir.args[2] = Tup(<<"zst", "fatptr">>)
    /\ Len(SpreadParams) = 2
    /\ \E k \in 1..Len(writes) : writes[k].local = 2 /\ writes[k].field = 1

\* C6: a virtual call passes exactly one value for its receiver, the data
\* pointer, right after the hidden return pointer if there is one, and its
\* signature has exactly one slot for the receiver there, of pointer type,
\* followed by the slots of the other inputs; the destructor call for a trait
\* object passes the data pointer alone under the signature of one pointer
\* parameter and no return.
C6_ThinReceiver ==
    /\ (CallLowered /\ last.callee.kind = "virtual") =>
          LET sig == last.callee.sig
              h == IF ReturnsByRef(sig) THEN 1 ELSE 0
          IN /\ ArgPositions(1) = {h + 1}
             /\ last.call_args[h + 1].kind = "data_ptr"
             /\ last.call_args[h + 1].ty = pointer_ty
             /\ last.synth.err = "none" =>
                   /\ last.synth.params[h + 1] = pointer_ty
                   /\ Len(last.synth.params)
                         = h + 1 + Len(InputSlots(Tail(FlatInputs(sig)), FALSE))
    /\ (last.op = "drop" /\ last.drop_ty.needs_drop /\ last.drop_ty.shape = "dyn") =>
          /\ pc = "lowered"
          /\ last.call_args = <<to_addr_maybe_unsized.ptr>>
          /\ last.call_args[1].kind = "data_ptr"
          /\ last.synth = Signature(<<pointer_ty>>, <<>>)
          /\ LastInst = Inst("call_indirect", last.call_args, last.synth, -1)

\* C6 witness: a virtual call with a second argument, returning an aggregate,
\* was lowered.
C6_Witness ==
    /\ CallLowered
    /\ pc = "lowered"
    /\ last.callee.kind = "virtual"
    /\ last.callee.args = <<Nm("fatptr"), Nm("i32")>>
    /\ last.callee.sig.output = Nm("agg")
    /\ last.synth.params = <<"I64", "I64", "I32">>

\* C7: codegen_drop of a place whose drop glue has no body changes nothing of
\* the function under construction: no instruction, no stack slot, no write,
\* no parameter, no binding; and lowering goes on.
C7_NoopDropNoEffect ==
    [][(pc = "body" /\ last'.op = "drop" /\ ~last'.drop_ty.needs_drop) =>
          /\ insts' = insts
          /\ stack_slots' = stack_slots
          /\ writes' = writes
          /\ ebb_params' = ebb_params
          /\ local_map' = local_map
          /\ own_sig' = own_sig
          /\ err' = "none"
          /\ pc' = "lowered"]_vars

\* C7 witness: a drop of a place with nothing to drop was lowered.
C7_Witness ==
    /\ last.op = "drop"
    /\ ~last.drop_ty.needs_drop
    /\ pc = "lowered"
    /\ Len(insts) = 1

\* The failures the call path reports for an unsupported shape of the callee.
ReportedFailures ==
    {"UnsupportedAbiConvention", "UnsupportedVariadicDefinition", "UnsupportedVariadicAbi",
     "UnsupportedVariadicArgType", "MalformedTupleArgument"}

\* C8 as stated: lowering a call of a non-intrinsic callee (direct, virtual,
\* indirect or no-op drop glue) of a supported shape completes without error;
\* the block ends with a trap when the call site names no successor and with
\* a jump to the successor when it names one.
C8_NoSuccessorTraps ==
    (/\ last.op = "call"
     /\ last.callee.kind \in {"direct", "virtual", "indirect", "nop_drop_glue"}
     /\ err \notin ReportedFailures) =>
        /\ err = "none"
        /\ pc = "lowered"
        /\ IF last.callee.dest = -1
           THEN LastInst.op = "trap"
           ELSE LastInst.op = "jump" /\ LastInst.dest = last.callee.dest

\* The last terminator lowered is a variadic call.
VariadicCall == CallLowered /\ last.callee.sig.c_variadic

\* Some of the arguments args has a slot that is no integer.
NonIntSlot(args) ==
    \E i \in 1..Len(args) : \E k \in 1..Len(SlotsOf(args[i])) : ~is_int(SlotsOf(args[i])[k])

\* The arguments of the call past the declared inputs of the callee.
ExtraArgs == SubSeq(last.callee.args, Len(last.callee.sig.inputs) + 1, Len(last.callee.args))

\* C9 as stated: a variadic call with an extra argument that is no integer
\* fails with UnsupportedVariadicArgType and lowering aborts; a variadic call
\* of the C convention whose extra arguments are all integers does not fail
\* with that error.
C9_ExtraArgsDecide ==
    /\ (VariadicCall /\ NonIntSlot(ExtraArgs)) =>
          err = "UnsupportedVariadicArgType" /\ pc = "aborted"
    /\ (VariadicCall /\ last.callee.sig.abi = "C" /\ ~NonIntSlot(ExtraArgs)) =>
          err # "UnsupportedVariadicArgType"

\* C9, amended: a variadic call of the C convention fails with
\* UnsupportedVariadicArgType, aborting lowering, exactly when some argument,
\* declared or extra (the receiver of a virtual call aside, which is passed
\* as a pointer), has a slot that is no integer, and completes otherwise; a
\* variadic call of another convention fails as an unsupported convention.
C9_AnyArgDecides ==
    /\ (VariadicCall /\ last.callee.sig.abi = "C") =>
          IF NonIntSlot(IF last.callee.kind = "virtual" THEN Tail(last.callee.args)
                        ELSE last.callee.args)
          THEN err = "UnsupportedVariadicArgType" /\ pc = "aborted"
          ELSE err = "none" /\ pc = "lowered"
    /\ (VariadicCall /\ last.callee.sig.abi # "C") =>
          /\ err \in {"UnsupportedAbiConvention", "UnsupportedVariadicAbi"}
          /\ pc = "aborted"

\* C9 witness: a C variadic call with a float declared argument and an
\* integer extra argument was rejected.
C9_Witness ==
    /\ VariadicCall
    /\ last.callee.sig.abi = "C"
    /\ last.callee.args = <<Nm("f64"), Nm("i32")>>
    /\ err = "UnsupportedVariadicArgType"
    /\ pc = "aborted"

\* C10 as stated: when the callee returns ByRef and the call site has no
\* return place, the hidden return pointer passed is the address of memory of
\* the caller: of a place or of a stack slot.
C10_ScratchReturnPointer ==
    (CallLowered /\ ReturnsByRef(last.callee.sig) /\ last.callee.dest = -1) =>
        last.call_args[1].kind \in {"ret_place_addr", "force_stack"}

\* The convention tags for which clif_sig_from_fn_sig has a lowering on the
\* target at hand.
SupportedAbi ==
    \/ mir.sig.abi \in {"Rust", "C", "RustCall", "RustIntrinsic"}
    \/ mir.sig.abi = "System" /\ ~is_like_windows

\* C11: clif_sig_from_fn_sig returns a signature only for the native tags,
\* rust-call, the intrinsic tag and the platform default on a target that is
\* not Windows-like, and always for all of these but rust-call; for the
\* intrinsic tag and the platform default the signature is the one of the
\* same inputs and output under the native tag, calling convention included;
\* for any other tag, and for the platform default on a Windows-like target,
\* it fails as an unsupported convention and returns no signature.
C11_ConventionDispatch ==
    pc = "synthesized" =>
        /\ own_sig.err = "none" => SupportedAbi
        /\ (SupportedAbi /\ mir.sig.abi # "RustCall") => own_sig.err = "none"
        /\ (SupportedAbi /\ mir.sig.abi \in {"System", "RustIntrinsic"}) =>
              /\ own_sig = clif_sig_from_fn_sig(is_like_windows,
                                                [mir.sig EXCEPT !.abi = "Rust"], vtable_flag)
              /\ own_sig.call_conv = "SystemV"
        /\ ~SupportedAbi =>
              /\ own_sig = SigError("UnsupportedAbiConvention")
              /\ err = "UnsupportedAbiConvention"

\* C11 witness: the platform default was refused on a Windows-like target
\* for a function type with inputs and a by-reference output.
C11_Witness ==
    /\ pc = "synthesized"
    /\ mir.sig.abi = "System"
    /\ is_like_windows
    /\ mir.sig.inputs = <<Nm("i32"), Nm("agg")>>
    /\ mir.sig.output = Nm("agg")
    /\ own_sig.params = <<>>
    /\ err = "UnsupportedAbiConvention"

\* C12 as stated: get_pass_mode returns a PassMode for every layout, without
\* failing, and touches nothing of the function under construction.
C12_ClassifierTotal ==
    pc = "classified" =>
        /\ pass_mode.mode \in {"NoPass", "ByVal", "ByValPair", "ByRef"}
        /\ err = "none"
        /\ insts = <<>> /\ writes = <<>> /\ ebb_params = <<>>
        /\ local_map = EmptyMap /\ stack_slots = 0

\* The instructions the terminator lowered last adds to the body when the
\* debug-comment instrumentation is in state dbg.
TerminatorInsts(dbg) ==
    CASE last.op = "call" -> terminator_call(dbg, is_like_windows, last.callee).insts
      [] last.op = "drop" -> drop_outcome(dbg, is_like_windows, last.drop_ty).insts
      [] last.op = "return" -> return_outcome(get_pass_mode(layout_of(mir.sig.output))).insts

\* C13 as stated: the body built by the prologue followed by a call, a drop or
\* a return is, instruction by instruction, the body the same lowering builds
\* with the debug-comment instrumentation in the other state.
C13_DebugHasNoEffect ==
    pc = "lowered" =>
        insts = <<Inst("jump", <<>>, NoSignature, START_BLOCK)>> \o TerminatorInsts(~debug)

\* The prologue of the function has run.
PrologueDone == last.op \notin {"none", "declare"}

\* The locals of the function: RETURN_PLACE, the arguments, the variables
\* and temporaries.
Locals == 0..(Len(mir.args) + Len(mir.temps))

\* C14: before the prologue no local is bound; the prologue inserts into the
\* local map once for each local of the function and for nothing else, no
\* insert finds the local already bound, and from then on every local has
\* its binding and no terminator adds or replaces one.
C14_BoundExactlyOnce ==
    /\ ~PrologueDone => (map_inserts = <<>> /\ local_map = EmptyMap)
    /\ PrologueDone =>
          /\ DOMAIN local_map = Locals
          /\ \A k \in 1..Len(map_inserts) :
                /\ map_inserts[k].prev_none
                /\ map_inserts[k].local \in Locals
          /\ \A l \in Locals :
                Cardinality({k \in 1..Len(map_inserts) : map_inserts[k].local = l}) = 1

\* C14 witness: the prologue of a function with an argument kept on the
\* stack and a temporary has bound its three locals.
C14_Witness ==
    /\ pc = "body"
    /\ mir.args = <<Nm("agg")>>
    /\ mir.temps = <<Nm("i32")>>
    /\ mir.not_ssa = {1}
    /\ Len(map_inserts) = 3
    /\ local_map[1].kind = "stack"
    /\ local_map[2].kind = "var"

\* The last terminator lowered is a call or a drop that made a call.
CallOrDropLowered ==
    /\ last.op \in {"call", "drop"}
    /\ last.callee.kind \in {"direct", "virtual", "indirect"}
    /\ err \notin {"AssertFailed", "MalformedTupleArgument"}

\* The call instructions of the body.
CallInsts == SelectSeq(insts, LAMBDA i : i.op \in {"call", "call_indirect"})

\* C15: at a call that is not variadic, of a callee of the native or the
\* rust-call convention, made by codegen_terminator_call or by codegen_drop,
\* lowering completes; the machine types of the low-level arguments are,
\* position by position, the parameters of the signature clif_sig_from_fn_sig
\* gives for the function type of the callee under the same virtual-receiver
\* flag, which is the signature of the call; the hidden return pointer comes
\* first when there is one, then the values of the arguments in declared
\* order, as many for each as it has slots (one for a virtual receiver); and
\* the one call instruction emitted carries these arguments and signature.
C15_ArgsMatchSignature ==
    (/\ CallOrDropLowered
     /\ ~last.callee.sig.c_variadic
     /\ last.callee.sig.abi \in {"Rust", "C", "RustCall"}) =>
        LET c == last.callee
            virtual == c.kind = "virtual"
            sig == clif_sig_from_fn_sig(is_like_windows, c.sig, virtual)
            tys == [k \in 1..Len(last.call_args) |-> last.call_args[k].ty]
            args == unpack_args(c)
        IN /\ err = "none" /\ pc = "lowered"
           /\ sig.err = "none"
           /\ last.synth = sig
           /\ tys = sig.params
           /\ Cardinality(ArgPositions(0)) = (IF ReturnsByRef(c.sig) THEN 1 ELSE 0)
           /\ \A i \in 1..Len(args) :
                 Cardinality(ArgPositions(i))
                    = (IF i = 1 /\ virtual THEN 1 ELSE Len(SlotsOf(args[i])))
           /\ \A j, k \in 1..Len(last.call_args) :
                 j < k => last.call_args[j].src <= last.call_args[k].src
           /\ Len(CallInsts) = 1
           /\ CallInsts[1].args = last.call_args
           /\ CallInsts[1].sig = sig

\* C15 witness: a call through a function pointer of a rust-call function
\* that takes a pair and a tuple of an aggregate and returns an aggregate.
C15_Witness ==
    /\ CallOrDropLowered
    /\ pc = "lowered"
    /\ last.callee.kind = "indirect"
    /\ last.callee.sig.abi = "RustCall"
    /\ last.callee.args = <<Nm("fatptr"), Tup(<<"agg">>)>>
    /\ last.callee.sig.output = Nm("agg")
    /\ last.synth.params = <<"I64", "I64", "I64", "I64">>
    /\ Len(last.call_args) = 4

\* The declared input, counted with the rust-call tuple unpacked, that the
\* entry-block parameter p belongs to (0: the hidden return pointer).
InputOf(p) ==
    IF p.src = RETURN_PLACE THEN 0
    ELSE IF mir.spread_arg # 0 /\ p.src = mir.spread_arg THEN p.src + p.fld
    ELSE p.src

\* C16: once the prologue has run, the machine types of the entry-block
\* parameters are, position by position, the parameters of the signature
\* get_function_name_and_sig gives for the function, under which it was
\* declared; the parameters are numbered in the order they were appended;
\* the first belongs to RETURN_PLACE exactly when the return PassMode is
\* ByRef, and no other does; the parameters of each declared input, the
\* rust-call tuple counted element by element, have the types of its slots,
\* and the inputs come in declared order.
C16_EntryParamsMatchSignature ==
    PrologueDone =>
        LET sig == get_function_name_and_sig(is_like_windows, mir.sig, FALSE)
            flat == FlatInputs(mir.sig)
        IN /\ sig.err = "none"
           /\ own_sig = sig
           /\ [k \in 1..Len(ebb_params) |-> ebb_params[k].ty] = sig.params
           /\ \A k \in 1..Len(ebb_params) : ebb_params[k].n = k
           /\ {k \in 1..Len(ebb_params) : ebb_params[k].src = RETURN_PLACE}
                 = (IF ReturnsByRef(mir.sig) THEN {1} ELSE {})
           /\ \A j \in 1..Len(flat) :
                 LET ps == SelectSeq(ebb_params, LAMBDA p : InputOf(p) = j)
                 IN [k \in 1..Len(ps) |-> ps[k].ty] = SlotsOf(flat[j])
           /\ \A k \in 1..Len(ebb_params) : InputOf(ebb_params[k]) \in 0..Len(flat)
           /\ \A j, k \in 1..Len(ebb_params) :
                 j < k => InputOf(ebb_params[j]) <= InputOf(ebb_params[k])

\* C16 witness: the prologue of a closure that takes an aggregate Self, a
\* pair and an integer and returns an aggregate.
C16_Witness ==
    /\ pc = "body"
    /\ mir.sig.abi = "RustCall"
    /\ mir.spread_arg = 0
    /\ mir.sig.inputs = <<Nm("agg"), Tup(<<"fatptr", "i32">>)>>
    /\ mir.sig.output = Nm("agg")
    /\ own_sig.params = <<"I64", "I64", "I64", "I64", "I32">>
    /\ Len(ebb_params) = 5

====
